---- MODULE Spec2Model ----
(***************************************************************************)
(* Model of the three analysis scripts of mvUseCase:                       *)
(*   MV01_throughputAnalysis.py  (load_oee_data, throughput_analysis)      *)
(*   MV02_rejectPackAnalysis.py  (loaders, reject_pack_analysis)           *)
(*   MV03_productionForecast.py  (forecast_production)                     *)
(* A data frame is a sequence of rows (records); every row keeps the row   *)
(* number it had in the CSV file as idx (the RangeIndex pandas assigns).   *)
(* Instants are minutes since Monday 00:00 of week 0.  Float cells are     *)
(* records [kind, num, den]: a rational, NaN, or inf.                      *)
(***************************************************************************)
EXTENDS Integers, Sequences, FiniteSets, TLC

VARIABLES
    pc,                     \* position in the running script
    error,                  \* the exception that ended the script, or "none"
    oee_csv,                \* rows read_csv returned for data/oee_data.csv
    package_csv,            \* rows read_csv returned for data/package_data.csv
    recipe_csv,             \* rows read_csv returned for data/recipe_data.csv
    error_csv,              \* rows read_csv returned for data/error_messages_timeline.csv
    oee_data,
    oee_data_resampled,
    oee_data_weekly,
    package_data,
    package_data_hourly,
    package_data_weekday,
    package_data_weekly,
    package_data_by_recipe,
    recipe_data,
    error_data,
    series,
    pred,
    prediction_df,
    output                  \* the report files written so far (name -> table)

vars == <<pc, error, oee_csv, package_csv, recipe_csv, error_csv, oee_data,
          oee_data_resampled, oee_data_weekly, package_data, package_data_hourly,
          package_data_weekday, package_data_weekly, package_data_by_recipe,
          recipe_data, error_data, series, pred, prediction_df, output>>

(***************************************************************************)
(* Bounds of the model.                                                    *)
(***************************************************************************)
MaxOee == 2
MaxPack == 2
MaxFree == 1
MaxRecipe == 2
MaxError == 2

(***************************************************************************)
(* Time.                                                                   *)
(***************************************************************************)
MinutesPerHour == 6 * 10
MinutesPerDay == 24 * MinutesPerHour
At(day, hh, mm) == day * MinutesPerDay + hh * MinutesPerHour + mm
DayOf(t) == t \div MinutesPerDay
normalize(t) == DayOf(t) * MinutesPerDay
dt_hour(t) == (t % MinutesPerDay) \div MinutesPerHour
dt_weekday(t) == DayOf(t) % 7

(***************************************************************************)
(* Text of a timestamp cell, as a sequence of character codes              *)
(* "DD HH:MM"; the hour may be written without its leading zero.           *)
(***************************************************************************)
Ascii == [space |-> 32, dot |-> 46, zero |-> 48, colon |-> 58]
Chr0 == Ascii.zero
ChrSpace == Ascii.space
ChrColon == Ascii.colon
Digits2(n) == <<Chr0 + (n \div 10), Chr0 + (n % 10)>>
DigitsOf(n) == IF n < 10 THEN <<Chr0 + n>> ELSE Digits2(n)
TsText(t, padded) ==
    Digits2(DayOf(t)) \o <<ChrSpace>>
    \o (IF padded THEN Digits2(dt_hour(t)) ELSE DigitsOf(dt_hour(t)))
    \o <<ChrColon>> \o Digits2(t % MinutesPerHour)

RECURSIVE DecVal(_)
DecVal(s) == IF s = <<>> THEN 0
             ELSE 10 * DecVal(SubSeq(s, 1, Len(s) - 1)) + (s[Len(s)] - Chr0)

\* pd.to_datetime on one cell
to_datetime(s) ==
    LET p == CHOOSE i \in 1..Len(s) : s[i] = ChrColon
    IN At(DecVal(SubSeq(s, 1, 2)), DecVal(SubSeq(s, 4, p - 1)),
          DecVal(SubSeq(s, p + 1, p + 2)))

\* order of Python str: code point by code point, a proper prefix first
RECURSIVE StrLess(_, _)
StrLess(s, t) ==
    IF t = <<>> THEN FALSE
    ELSE IF s = <<>> THEN TRUE
    ELSE IF s[1] # t[1] THEN s[1] < t[1]
    ELSE StrLess(Tail(s), Tail(t))

\* strftime('%d.%m.%Y') of a date, reduced to the day number's digits
ChrDot == Ascii.dot
strftime(day) == Digits2(day) \o <<ChrDot>>

(***************************************************************************)
(* Float cells.                                                            *)
(***************************************************************************)
NaN == [kind |-> "nan", num |-> 0, den |-> 1]
Inf == [kind |-> "inf", num |-> 0, den |-> 1]
Num(n) == [kind |-> "num", num |-> n, den |-> 1]
Frac(n, d) == [kind |-> "num", num |-> n, den |-> d]
IsNaN(x) == x.kind = "nan"

\* Series / Series on integer columns: 0/0 is NaN, x/0 is inf, nothing raises
TrueDiv(a, b) ==
    IF b = 0 THEN (IF a = 0 THEN NaN ELSE Inf) ELSE Frac(a, b)

(***************************************************************************)
(* Generic sequence helpers.                                               *)
(***************************************************************************)
Range(s) == {s[i] : i \in 1..Len(s)}

RECURSIVE SumOver(_, _)
SumOver(f, S) == IF S = {} THEN 0
                 ELSE LET i == CHOOSE j \in S : TRUE
                      IN f[i] + SumOver(f, S \ {i})

\* the rows of s that satisfy keep, in order
RECURSIVE FilterIdx(_, _)
FilterIdx(s, keep) ==
    IF s = <<>> THEN <<>>
    ELSE (IF keep[1] THEN <<s[1]>> ELSE <<>>)
         \o FilterIdx(Tail(s), Tail(keep))

SeqsUpTo(S, n) == UNION {[1..k -> S] : k \in 0..n}

(***************************************************************************)
(* DataFrame.sort_values(by=...) with the default kind="quicksort": the    *)
(* result is ordered by the key, rows with equal keys come in an order     *)
(* the sort does not promise.  key[i] is the integer rank of row i.        *)
(***************************************************************************)
RECURSIVE Orderings(_, _)
Orderings(key, S) ==
    IF S = {} THEN {<<>>}
    ELSE LET Mins == {i \in S : \A j \in S : key[i] <= key[j]}
         IN UNION {{<<i>> \o rest : rest \in Orderings(key, S \ {i})} : i \in Mins}

sort_values(rows, key) ==
    {[k \in 1..Len(rows) |-> rows[o[k]]] : o \in Orderings(key, 1..Len(rows))}

TimestampKey(rows) == [i \in 1..Len(rows) |-> rows[i].timestamp]

\* rank of a text cell among the cells of its column, in str order
TextKey(cells) ==
    [i \in 1..Len(cells) |->
        Cardinality({j \in 1..Len(cells) : StrLess(cells[j], cells[i])})]

(***************************************************************************)
(* Resampling.                                                             *)
(***************************************************************************)
MinTs(rows) == CHOOSE t \in {r.timestamp : r \in Range(rows)} :
                   \A r \in Range(rows) : t <= r.timestamp
MaxTs(rows) == CHOOSE t \in {r.timestamp : r \in Range(rows)} :
                   \A r \in Range(rows) : t >= r.timestamp

\* Fixed-duration bins of resample(freq): closed and labelled on the left,
\* origin "start_day" (midnight of the first record's day).  One entry per
\* bin from the first record's bin to the last record's bin:
\* [label |-> bin start, members |-> positions of the rows in the bin].
resample(rows, freq) ==
    IF rows = <<>> THEN <<>>
    ELSE LET origin == normalize(MinTs(rows))
             first == MinTs(rows) - ((MinTs(rows) - origin) % freq)
             last == MaxTs(rows) - ((MaxTs(rows) - origin) % freq)
             n == (last - first) \div freq + 1
         IN [k \in 1..n |->
                [label |-> first + (k - 1) * freq,
                 members |-> {i \in 1..Len(rows) :
                                 /\ first + (k - 1) * freq <= rows[i].timestamp
                                 /\ rows[i].timestamp < first + k * freq}]]

\* t - Week(weekday=6) and t + Week(weekday=6) for a midnight t: the Sunday
\* strictly before, strictly after
SubWeek(t) == LET d == DayOf(t)
              IN (IF d % 7 = 6 THEN d - 7 ELSE d - (d % 7) - 1) * MinutesPerDay
AddWeek(t) == LET d == DayOf(t)
              IN (IF d % 7 = 6 THEN d + 7 ELSE d + (6 - (d % 7))) * MinutesPerDay

\* the edge of a weekly bin is rolled from the label's midnight to the last
\* moment of that day
adjust_bin_edges_unrolled(label) == label
adjust_bin_edges(label) == label + MinutesPerDay - 1

\* Bins of resample("1W") (W-SUN): closed and labelled on the right.
resample_1W(rows) ==
    IF rows = <<>> THEN <<>>
    ELSE LET first == SubWeek(normalize(MinTs(rows)))
             last == AddWeek(normalize(MaxTs(rows)))
             n0 == (last - first) \div (7 * MinutesPerDay) + 1
             binner0 == [k \in 1..n0 |-> first + (k - 1) * 7 * MinutesPerDay]
             n == IF adjust_bin_edges(binner0[n0 - 1]) > MaxTs(rows)
                  THEN n0 - 1 ELSE n0
         IN [k \in 1..(n - 1) |->
                [label |-> binner0[k + 1],
                 members |-> {i \in 1..Len(rows) :
                                 /\ adjust_bin_edges(binner0[k]) < rows[i].timestamp
                                 /\ rows[i].timestamp <= adjust_bin_edges(binner0[k + 1])}]]

\* reducers over the rows at positions S
agg_count(rows, S, c) == Num(Cardinality({i \in S : ~IsNaN(rows[i][c])}))
agg_mean(rows, S, c) ==
    LET V == {i \in S : ~IsNaN(rows[i][c])}
    IN IF V = {} THEN NaN
       ELSE Frac(SumOver([i \in V |-> rows[i][c].num], V), Cardinality(V))
\* sum of an integer column; the sum over no rows is 0
agg_sum(rows, S, c) == Num(SumOver([i \in S |-> rows[i][c]], S))

(***************************************************************************)
(* MV01_throughputAnalysis.py                                              *)
(***************************************************************************)
OeeTimes == {At(6, 23, 55), At(7, 0, 0), At(7, 0, 7)}
OeeCells == [timestamp : {TsText(t, TRUE) : t \in OeeTimes},
             expected_cycles_per_minute : {NaN, Num(10)},
             actual_cycles_per_minute : {NaN, Num(8), Num(6)}]
OeeFiles == SeqsUpTo(OeeCells, MaxOee)

PackTimesMV01 == {At(0, 8, 0), At(6, 23, 59), At(7, 0, 0), At(14, 8, 0)}
PackCellsMV01 == [timestamp : {TsText(t, TRUE) : t \in PackTimesMV01},
                  good_packs : {0, 5}, reject_packs : {1}]
PackFilesMV01 == SeqsUpTo(PackCellsMV01, MaxPack)

\* read_csv gives every row its row number; to_datetime parses the column
ParseTimestamps(csv) ==
    [i \in 1..Len(csv) |->
        [c \in (DOMAIN csv[i]) \cup {"idx"} |->
            IF c = "idx" THEN i - 1
            ELSE IF c = "timestamp" THEN to_datetime(csv[i].timestamp)
            ELSE csv[i][c]]]

\* Series.ffill()
ffill(rows, c) ==
    [i \in 1..Len(rows) |->
        LET Known == {j \in 1..i : ~IsNaN(rows[j][c])}
        IN IF Known = {} THEN rows[i]
           ELSE LET j == CHOOSE k \in Known : \A m \in Known : m <= k
                IN [rows[i] EXCEPT ![c] = rows[j][c]]]

\* DataFrame.dropna(): a row with a missing cell in any column goes
dropna(rows) ==
    FilterIdx(rows, [i \in 1..Len(rows) |->
        /\ ~IsNaN(rows[i].expected_cycles_per_minute)
        /\ ~IsNaN(rows[i].actual_cycles_per_minute)])

Abs(x) == IF x < 0 THEN -x ELSE x

AddDeviation(rows) ==
    [i \in 1..Len(rows) |->
        [c \in (DOMAIN rows[i]) \cup {"deviation_from_programmed_throughput"} |->
            IF c = "deviation_from_programmed_throughput"
            THEN Num(Abs(rows[i].expected_cycles_per_minute.num
                         - rows[i].actual_cycles_per_minute.num))
            ELSE rows[i][c]]]

\* the frames load_oee_data can return for a file (one per outcome of the sort)
load_oee_data_drop_first(csv) ==
    {AddDeviation(ffill(dropna(s), "expected_cycles_per_minute")) :
        s \in sort_values(ParseTimestamps(csv), TimestampKey(ParseTimestamps(csv)))}
load_oee_data(csv) ==
    {AddDeviation(dropna(ffill(s, "expected_cycles_per_minute"))) :
        s \in sort_values(ParseTimestamps(csv), TimestampKey(ParseTimestamps(csv)))}

load_package_data_MV01(csv) ==
    sort_values(ParseTimestamps(csv), TimestampKey(ParseTimestamps(csv)))

OeeColumns == {"expected_cycles_per_minute", "actual_cycles_per_minute",
               "deviation_from_programmed_throughput"}
PackColumns == {"good_packs", "reject_packs"}

AggTable(rows, bins, cols, Agg(_, _, _)) ==
    [k \in 1..Len(bins) |->
        [c \in cols \cup {"label"} |->
            IF c = "label" THEN bins[k].label
            ELSE Agg(rows, bins[k].members, c)]]

FiveMinutes == 5
ReportNames == {"ICC_InitialeAnalyse", "ICC_Schlechtpackungen_Stuendlich",
                "ICC_Schlechtpackungen_Wochentag", "ICC_Schlechtpackungen_Woechentlich",
                "ICC_Schlechtpackungen_NachRezept", "ICC_Fehlercodeanalyse",
                "ICC_Produktionsvorhersage"}
NotWritten == <<"not written">>

Idle == /\ pc = "start" /\ error = "none"
        /\ oee_csv = <<>> /\ package_csv = <<>> /\ recipe_csv = <<>> /\ error_csv = <<>>
        /\ oee_data = <<>> /\ oee_data_resampled = <<>> /\ oee_data_weekly = <<>>
        /\ package_data = <<>> /\ package_data_hourly = <<>>
        /\ package_data_weekday = <<>> /\ package_data_weekly = <<>>
        /\ package_data_by_recipe = <<>> /\ recipe_data = <<>> /\ error_data = <<>>
        /\ series = <<>> /\ pred = <<>> /\ prediction_df = <<>>
        /\ output = [n \in ReportNames |-> NotWritten]

\* line 45
MV01_LoadOee ==
    /\ pc = "start"
    /\ \E csv \in OeeFiles :
          /\ oee_csv' = csv
          /\ oee_data' \in load_oee_data(csv)
    /\ pc' = "oee_loaded"
    /\ UNCHANGED <<error, package_csv, recipe_csv, error_csv, oee_data_resampled,
                   oee_data_weekly, package_data, package_data_hourly,
                   package_data_weekday, package_data_weekly, package_data_by_recipe,
                   recipe_data, error_data, series, pred, prediction_df, output>>

\* lines 51-53
MV01_Resample5min ==
    /\ pc = "oee_loaded"
    /\ oee_data_resampled' =
          AggTable(oee_data, resample(oee_data, FiveMinutes), OeeColumns, agg_count)
    /\ pc' = "oee_resampled"
    /\ UNCHANGED <<error, oee_csv, package_csv, recipe_csv, error_csv, oee_data,
                   oee_data_weekly, package_data, package_data_hourly,
                   package_data_weekday, package_data_weekly, package_data_by_recipe,
                   recipe_data, error_data, series, pred, prediction_df, output>>

\* lines 54-58
MV01_WeeklyOee ==
    /\ pc = "oee_resampled"
    /\ oee_data_resampled' = <<>>
    /\ oee_data_weekly' = AggTable(oee_data, resample_1W(oee_data), OeeColumns, agg_mean)
    /\ pc' = "oee_weekly"
    /\ UNCHANGED <<error, oee_csv, package_csv, recipe_csv, error_csv, oee_data,
                   package_data, package_data_hourly,
                   package_data_weekday, package_data_weekly, package_data_by_recipe,
                   recipe_data, error_data, series, pred, prediction_df, output>>

\* line 59
MV01_DeleteOee ==
    /\ pc = "oee_weekly"
    /\ oee_data' = <<>>
    /\ oee_csv' = <<>>
    /\ pc' = "oee_deleted"
    /\ UNCHANGED <<error, package_csv, recipe_csv, error_csv, oee_data_resampled,
                   oee_data_weekly, package_data, package_data_hourly,
                   package_data_weekday, package_data_weekly, package_data_by_recipe,
                   recipe_data, error_data, series, pred, prediction_df, output>>

\* line 63
MV01_LoadPackage ==
    /\ pc = "oee_deleted"
    /\ \E csv \in PackFilesMV01 :
          /\ package_csv' = csv
          /\ package_data' \in load_package_data_MV01(csv)
    /\ pc' = "package_loaded"
    /\ UNCHANGED <<error, oee_csv, oee_data, recipe_csv, error_csv, oee_data_resampled,
                   oee_data_weekly, package_data_hourly,
                   package_data_weekday, package_data_weekly, package_data_by_recipe,
                   recipe_data, error_data, series, pred, prediction_df, output>>

\* line 64
MV01_WeeklyPackage ==
    /\ pc = "package_loaded"
    /\ package_data_weekly' =
          AggTable(package_data, resample_1W(package_data), PackColumns, agg_sum)
    /\ pc' = "package_weekly"
    /\ UNCHANGED <<error, oee_csv, package_csv, recipe_csv, error_csv, oee_data,
                   oee_data_resampled, oee_data_weekly, package_data, package_data_hourly,
                   package_data_weekday, package_data_by_recipe,
                   recipe_data, error_data, series, pred, prediction_df, output>>

\* DataFrame.join: left join on the index
join(left, right) ==
    [k \in 1..Len(left) |->
        [c \in (DOMAIN left[k]) \cup PackColumns |->
            IF c \in PackColumns
            THEN IF \E m \in 1..Len(right) : right[m].label = left[k].label
                 THEN (CHOOSE r \in Range(right) : r.label = left[k].label)[c]
                 ELSE NaN
            ELSE left[k][c]]]

\* lines 65-69
MV01_Join ==
    /\ pc = "package_weekly"
    /\ package_data' = <<>>
    /\ package_csv' = <<>>
    /\ oee_data_weekly' = join(oee_data_weekly, package_data_weekly)
    /\ package_data_weekly' = <<>>
    /\ pc' = "joined"
    /\ UNCHANGED <<error, oee_csv, recipe_csv, error_csv, oee_data,
                   oee_data_resampled, package_data_hourly,
                   package_data_weekday, package_data_by_recipe,
                   recipe_data, error_data, series, pred, prediction_df, output>>

\* lines 74-84: the index moved back 6 days and formatted, the columns of the report
ReportMV01(table) ==
    [k \in 1..Len(table) |->
        [Woche_von |-> strftime(DayOf(table[k].label) - 6),
         Geplante_Taktleistung |-> 10,
         Programmierte_Taktleistung |-> table[k].expected_cycles_per_minute,
         Tatsaechliche_Taktleistung |-> table[k].actual_cycles_per_minute,
         Gutpackungen |-> table[k].good_packs,
         Schlechtpackungen |-> table[k].reject_packs]]

\* lines 74-87
MV01_WriteReport ==
    /\ pc = "joined"
    /\ output' = [output EXCEPT !["ICC_InitialeAnalyse"] = ReportMV01(oee_data_weekly)]
    /\ oee_data_weekly' = <<>>
    /\ pc' = "done"
    /\ UNCHANGED <<error, oee_csv, package_csv, recipe_csv, error_csv, oee_data,
                   oee_data_resampled, package_data, package_data_hourly,
                   package_data_weekday, package_data_weekly, package_data_by_recipe,
                   recipe_data, error_data, series, pred, prediction_df>>

NextMV01 == \/ MV01_LoadOee \/ MV01_Resample5min \/ MV01_WeeklyOee \/ MV01_DeleteOee
            \/ MV01_LoadPackage \/ MV01_WeeklyPackage \/ MV01_Join \/ MV01_WriteReport
SpecMV01 == Idle /\ [][NextMV01]_vars

(***************************************************************************)
(* Properties of throughput_analysis.                                      *)
(***************************************************************************)
OeeAlive == pc \in {"oee_loaded", "oee_resampled", "oee_weekly"}

\* the parsed instant of row i of the oee file
OeeTs(i) == to_datetime(oee_csv[i].timestamp)
OeeKnown(i) == ~IsNaN(oee_csv[i].expected_cycles_per_minute)

\* the values forward-fill can give row i: those of the known rows that are
\* nearest before it in time
FillCandidates(i) ==
    {oee_csv[j].expected_cycles_per_minute : j \in
        {j \in 1..Len(oee_csv) :
            /\ j # i /\ OeeKnown(j) /\ OeeTs(j) <= OeeTs(i)
            /\ ~\E k \in 1..Len(oee_csv) :
                  OeeKnown(k) /\ OeeTs(j) < OeeTs(k) /\ OeeTs(k) < OeeTs(i)}}

OeeKept(i) == \E r \in Range(oee_data) : r.idx = i - 1
OeeKeptFilled(i) ==
    \E r \in Range(oee_data) :
        r.idx = i - 1 /\ r.expected_cycles_per_minute \in FillCandidates(i)

\* a row with no expected value that has a known value strictly before it
Fillable(i) ==
    /\ ~OeeKnown(i)
    /\ \E j \in 1..Len(oee_csv) : OeeKnown(j) /\ OeeTs(j) < OeeTs(i)

\* a row with no expected value and no known value at or before it
Unfillable(i) ==
    /\ ~OeeKnown(i)
    /\ ~\E j \in 1..Len(oee_csv) : OeeKnown(j) /\ OeeTs(j) <= OeeTs(i)

\* C2 as claimed: every row of the oee file whose expected_cycles_per_minute is
\* missing and that has a known value earlier in time is in the frame
\* load_oee_data returns, with the filled value; rows with no known value at
\* or before them are removed.
C2_AsClaimed ==
    OeeAlive => \A i \in 1..Len(oee_csv) :
        /\ Fillable(i) => OeeKeptFilled(i)
        /\ Unfillable(i) => ~OeeKept(i)

\* C2 amended: the same for the rows whose actual_cycles_per_minute is present
\* (dropna removes a row for a missing cell in any column).
C2_FillThenDrop ==
    OeeAlive => \A i \in 1..Len(oee_csv) :
        /\ (Fillable(i) /\ ~IsNaN(oee_csv[i].actual_cycles_per_minute))
              => OeeKeptFilled(i)
        /\ Unfillable(i) => ~OeeKept(i)

C2_Witness ==
    /\ pc = "oee_loaded"
    /\ \E i \in 1..Len(oee_csv) :
          /\ Fillable(i) /\ ~IsNaN(oee_csv[i].actual_cycles_per_minute)
          /\ OeeKeptFilled(i)

\* C3 as claimed: a 5-minute or weekly window that holds no record has 0 in
\* every column under count and the undefined marker under mean and under sum.
EmptyRowsHold(rows, table, lo(_), hi(_), cols, cell) ==
    \A k \in 1..Len(table) :
        (~\E r \in Range(rows) : lo(table[k].label) <= r.timestamp
                                 /\ r.timestamp <= hi(table[k].label))
        => \A c \in cols : table[k][c] = cell

WeekLo(label) == label - 6 * MinutesPerDay
WeekHi(label) == label + MinutesPerDay - 1
FiveLo(label) == label
FiveHi(label) == label + FiveMinutes - 1

C3_AsClaimed ==
    /\ pc = "oee_resampled" =>
          EmptyRowsHold(oee_data, oee_data_resampled, FiveLo, FiveHi, OeeColumns, Num(0))
    /\ pc = "oee_weekly" =>
          EmptyRowsHold(oee_data, oee_data_weekly, WeekLo, WeekHi, OeeColumns, NaN)
    /\ pc = "package_weekly" =>
          EmptyRowsHold(package_data, package_data_weekly, WeekLo, WeekHi, PackColumns, NaN)

\* C8: the weekly table has one row per week, labelled by Sundays one week
\* apart in ascending order; every record lies in the span Monday..Sunday of
\* exactly one row; each row reduces exactly the records whose date lies in its
\* span; the report labels the row by the Monday, 6 days before the week end.
InSpan(t, label) ==
    /\ DayOf(label) - 6 <= DayOf(t)
    /\ DayOf(t) <= DayOf(label)

WeeklyWindows(rows, table, cols, Agg(_, _, _)) ==
    /\ \A k \in 1..Len(table) :
          /\ dt_weekday(table[k].label) = 6
          /\ table[k].label = normalize(table[k].label)
          /\ k > 1 => table[k].label = table[k - 1].label + 7 * MinutesPerDay
          /\ \A c \in cols :
                table[k][c] = Agg(rows, {i \in 1..Len(rows) :
                                            InSpan(rows[i].timestamp, table[k].label)}, c)
    /\ \A i \in 1..Len(rows) :
          Cardinality({k \in 1..Len(table) :
                          InSpan(rows[i].timestamp, table[k].label)}) = 1

C8_Windows ==
    /\ pc = "oee_weekly" =>
          WeeklyWindows(oee_data, oee_data_weekly, OeeColumns, agg_mean)
    /\ pc = "package_weekly" =>
          WeeklyWindows(package_data, package_data_weekly, PackColumns, agg_sum)

C8_Relabel ==
    (pc = "joined" /\ pc' = "done") =>
        /\ Len(output'["ICC_InitialeAnalyse"]) = Len(oee_data_weekly)
        /\ \A k \in 1..Len(oee_data_weekly) :
              output'["ICC_InitialeAnalyse"][k].Woche_von
                  = strftime(DayOf(oee_data_weekly[k].label) - 6)

\* C8: the weekly windows are the spans Monday..Sunday, one row each, and the
\* report labels a row by its Monday.
C8_CalendarWeeks == []C8_Windows /\ [][C8_Relabel]_vars

\* a record late on a Sunday is summed in the week that ends on that Sunday
C8_Witness ==
    /\ pc = "package_weekly"
    /\ \E i \in 1..Len(package_data) :
          /\ dt_weekday(package_data[i].timestamp) = 6
          /\ dt_hour(package_data[i].timestamp) = 23
          /\ package_data[i].good_packs > 0
    /\ Len(package_data_weekly) > 1

(***************************************************************************)
(* MV02_rejectPackAnalysis.py                                              *)
(* The script is followed up to the per-recipe report; of the error-code   *)
(* counts that come after it (lines 124-142) the loader is modelled.       *)
(***************************************************************************)
\* One row per weekday of week 0 at 09:00, followed by up to MaxFree free rows.
WeekBlock ==
    [d \in 1..7 |-> [timestamp |-> TsText(At(d - 1, 9, 0), TRUE),
                     good_packs |-> 5, reject_packs |-> 1]]
PackTimesMV02 == {At(0, 7, 0), At(6, 23, 0)}
PackCellsMV02 == [timestamp : {TsText(t, TRUE) : t \in PackTimesMV02},
                  good_packs : {0, 5}, reject_packs : {0, 1}]
PackFilesMV02 ==
    {b \o f : b \in {<<>>, WeekBlock}, f \in SeqsUpTo(PackCellsMV02, MaxFree)}

RecipeNames == <<"A", "B">>
RecipeTimes == {At(0, 9, 0), At(0, 10, 0)}
RecipeCells == [timestamp : {TsText(t, p) : t \in RecipeTimes, p \in BOOLEAN},
                recipe : Range(RecipeNames)]
RecipeFiles == SeqsUpTo(RecipeCells, MaxRecipe)

ErrorTimes == {At(2, 9, 0), At(2, 10, 0)}
ErrorCells == [start_ts : {TsText(t, p) : t \in ErrorTimes, p \in BOOLEAN},
               end_ts : {TsText(At(2, 11, 0), TRUE)},
               code : {1019, 2030}, duration_in_s : {60}]
ErrorFiles == SeqsUpTo(ErrorCells, MaxError)

WithColumn(rows, name, F(_)) ==
    [i \in 1..Len(rows) |->
        [c \in (DOMAIN rows[i]) \cup {name} |->
            IF c = name THEN F(rows[i]) ELSE rows[i][c]]]

\* lines 10-13
load_package_data(csv) ==
    sort_values(ParseTimestamps(csv), TimestampKey(ParseTimestamps(csv)))

\* rows with read_csv's row number, the timestamp column still text
WithIdx(csv) ==
    [i \in 1..Len(csv) |->
        [c \in (DOMAIN csv[i]) \cup {"idx"} |-> IF c = "idx" THEN i - 1 ELSE csv[i][c]]]

ConvertColumn(rows, name) ==
    [i \in 1..Len(rows) |-> [rows[i] EXCEPT ![name] = to_datetime(rows[i][name])]]

\* lines 36-39: sorted on the text of the timestamp column, converted afterwards
load_recipe_data(csv) ==
    {ConvertColumn(s, "timestamp") :
        s \in sort_values(WithIdx(csv),
                          TextKey([i \in 1..Len(csv) |-> csv[i].timestamp]))}

\* lines 23-26
load_error_data(csv) ==
    {ConvertColumn(ConvertColumn(s, "start_ts"), "end_ts") :
        s \in sort_values(WithIdx(csv),
                          TextKey([i \in 1..Len(csv) |-> csv[i].start_ts]))}

\* groupby([c])[["good_packs", "reject_packs"]].sum(): one row per key that
\* occurs in column c, in ascending key order; Keys lists the keys in that
\* order (a missing key cell is in no group)
groupby_last(rows, c, Keys) ==
    LET present == FilterIdx(Keys, [k \in 1..Len(Keys) |->
                        \E i \in 1..Len(rows) : rows[i][c] = Keys[k]])
    IN [g \in 1..Len(present) |->
           LET last == CHOOSE i \in 1..Len(rows) :
                          /\ rows[i][c] = present[g]
                          /\ \A j \in 1..Len(rows) : rows[j][c] = present[g] => j <= i
           IN [key |-> present[g],
               good_packs |-> Num(rows[last].good_packs),
               reject_packs |-> Num(rows[last].reject_packs)]]
groupby_sum(rows, c, Keys) ==
    LET present == FilterIdx(Keys, [k \in 1..Len(Keys) |->
                        \E i \in 1..Len(rows) : rows[i][c] = Keys[k]])
    IN [g \in 1..Len(present) |->
           LET members == {i \in 1..Len(rows) : rows[i][c] = present[g]}
           IN [key |-> present[g],
               good_packs |-> agg_sum(rows, members, "good_packs"),
               reject_packs |-> agg_sum(rows, members, "reject_packs")]]

\* the renamed columns and the rate column of a report table
RateTable(table) ==
    [k \in 1..Len(table) |->
        [key |-> table[k].key,
         Gutpackungen |-> table[k].good_packs,
         Schlechtpackungen |-> table[k].reject_packs,
         Rate_Schlechtpackungen |->
             TrueDiv(table[k].reject_packs.num, table[k].good_packs.num)]]

Hours == [h \in 1..24 |-> h - 1]
Weekdays == [d \in 1..7 |-> d - 1]
Wochentage == <<"Montag", "Dienstag", "Mittwoch", "Donnerstag", "Freitag",
                "Samstag", "Sonntag">>
HourOfRow(r) == dt_hour(r.timestamp)
WeekdayOfRow(r) == dt_weekday(r.timestamp)

UnchangedMV01 == UNCHANGED <<oee_csv, oee_data, oee_data_resampled, oee_data_weekly>>
UnchangedMV03 == UNCHANGED <<series, pred, prediction_df>>

\* line 45
MV02_LoadPackage ==
    /\ pc = "start"
    /\ \E csv \in PackFilesMV02 :
          /\ package_csv' = csv
          /\ package_data' \in load_package_data(csv)
    /\ pc' = "package_loaded"
    /\ UnchangedMV01 /\ UnchangedMV03
    /\ UNCHANGED <<error, recipe_csv, error_csv, package_data_hourly,
                   package_data_weekday, package_data_weekly, package_data_by_recipe,
                   recipe_data, error_data, output>>

\* lines 59-67
MV02_Hourly ==
    /\ pc = "package_loaded"
    /\ package_data' = WithColumn(package_data, "hour", HourOfRow)
    /\ package_data_hourly' = RateTable(groupby_sum(package_data', "hour", Hours))
    /\ pc' = "hourly"
    /\ UnchangedMV01 /\ UnchangedMV03
    /\ UNCHANGED <<error, package_csv, recipe_csv, error_csv,
                   package_data_weekday, package_data_weekly, package_data_by_recipe,
                   recipe_data, error_data, output>>

\* set_index([[labels]]): the labels replace the index when there is one per
\* row, and the call raises ValueError otherwise
set_index(table, labels) ==
    IF Len(table) # Len(labels) THEN <<>>
    ELSE [k \in 1..Len(table) |-> [table[k] EXCEPT !.key = labels[k]]]

\* lines 68-83
MV02_Weekday ==
    /\ pc = "hourly"
    /\ output' = [output EXCEPT !["ICC_Schlechtpackungen_Stuendlich"] = package_data_hourly]
    /\ package_data_hourly' = <<>>
    /\ package_data' = WithColumn(package_data, "weekday", WeekdayOfRow)
    /\ LET grouped == groupby_sum(package_data', "weekday", Weekdays)
       IN IF Len(grouped) # Len(Wochentage)
          THEN /\ error' = "ValueError: Length mismatch"
               /\ pc' = "failed"
               /\ UNCHANGED package_data_weekday
          ELSE /\ package_data_weekday' = RateTable(set_index(grouped, Wochentage))
               /\ pc' = "weekday"
               /\ UNCHANGED error
    /\ UnchangedMV01 /\ UnchangedMV03
    /\ UNCHANGED <<package_csv, recipe_csv, error_csv,
                   package_data_weekly, package_data_by_recipe,
                   recipe_data, error_data>>

\* lines 90-91 on one label
WocheVon(label) == strftime(DayOf(label) - 6)

\* lines 84-98
MV02_Weekly ==
    /\ pc = "weekday"
    /\ output' = [output EXCEPT !["ICC_Schlechtpackungen_Wochentag"] = package_data_weekday]
    /\ package_data_weekday' = <<>>
    /\ LET weekly == AggTable(package_data, resample_1W(package_data), PackColumns, agg_sum)
       IN package_data_weekly' =
             RateTable([k \in 1..Len(weekly) |->
                           [key |-> WocheVon(weekly[k].label),
                            good_packs |-> weekly[k].good_packs,
                            reject_packs |-> weekly[k].reject_packs]])
    /\ pc' = "weekly"
    /\ UnchangedMV01 /\ UnchangedMV03
    /\ UNCHANGED <<error, package_csv, recipe_csv, error_csv, package_data,
                   package_data_hourly, package_data_by_recipe,
                   recipe_data, error_data>>

\* lines 99-106
MV02_LoadRecipe ==
    /\ pc = "weekly"
    /\ output' = [output EXCEPT !["ICC_Schlechtpackungen_Woechentlich"] = package_data_weekly]
    /\ package_data_weekly' = <<>>
    /\ \E csv \in RecipeFiles :
          /\ recipe_csv' = csv
          /\ recipe_data' \in load_recipe_data(csv)
    /\ pc' = "recipe_loaded"
    /\ UnchangedMV01 /\ UnchangedMV03
    /\ UNCHANGED <<error, package_csv, error_csv, package_data,
                   package_data_hourly, package_data_weekday, package_data_by_recipe,
                   error_data>>

\* cells of a lookup that found no row
NaT == 0 - 1
NoRecipe == "nan"

IsMonotonic(v) == \A i \in 1..(Len(v) - 1) : v[i] <= v[i + 1]

\* The scan of merge_asof(direction="backward", allow_exact_matches=True):
\* right_pos counts from 0 as in the library; the result gives for every left
\* row the position (from 0) of its right row, or -1.
RECURSIVE asof_while_strict(_, _, _)
asof_while_strict(rv, x, right_pos) ==
    IF right_pos < Len(rv) /\ rv[right_pos + 1] < x
    THEN asof_while_strict(rv, x, right_pos + 1)
    ELSE right_pos
RECURSIVE asof_while(_, _, _)
asof_while(rv, x, right_pos) ==
    IF right_pos < Len(rv) /\ rv[right_pos + 1] <= x
    THEN asof_while(rv, x, right_pos + 1)
    ELSE right_pos

RECURSIVE asof_join_backward(_, _, _, _)
asof_join_backward(lv, rv, left_pos, right_pos) ==
    IF left_pos > Len(lv) THEN <<>>
    ELSE LET start == IF right_pos < 0 THEN 0 ELSE right_pos
             found == asof_while(rv, lv[left_pos], start) - 1
         IN <<found>> \o asof_join_backward(lv, rv, left_pos + 1, found)

\* lines 107-108: the rows of left with the columns of the matched right row
merge_asof(left, right) ==
    LET right_indexer == asof_join_backward(TimestampKey(left), TimestampKey(right), 1, 0)
    IN [k \in 1..Len(left) |->
           [c \in ((DOMAIN left[k]) \ {"timestamp"}) \cup {"timestamp_x", "timestamp_y", "recipe"} |->
               IF c = "timestamp_x" THEN left[k].timestamp
               ELSE IF c = "timestamp_y"
                    THEN (IF right_indexer[k] < 0 THEN NaT
                          ELSE right[right_indexer[k] + 1].timestamp)
               ELSE IF c = "recipe"
                    THEN (IF right_indexer[k] < 0 THEN NoRecipe
                          ELSE right[right_indexer[k] + 1].recipe)
               ELSE left[k][c]]]

\* lines 107-108
MV02_MergeAsof ==
    /\ pc = "recipe_loaded"
    /\ IF IsMonotonic(TimestampKey(package_data)) /\ IsMonotonic(TimestampKey(recipe_data))
       THEN /\ package_data' = merge_asof(package_data, recipe_data)
            /\ pc' = "merged"
            /\ UNCHANGED error
       ELSE /\ error' = "ValueError: keys must be sorted"
            /\ pc' = "failed"
            /\ UNCHANGED package_data
    /\ UnchangedMV01 /\ UnchangedMV03
    /\ UNCHANGED <<package_csv, recipe_csv, error_csv,
                   package_data_hourly, package_data_weekday, package_data_weekly,
                   package_data_by_recipe, recipe_data, error_data, output>>

DropColumn(rows, name) ==
    [i \in 1..Len(rows) |-> [c \in (DOMAIN rows[i]) \ {name} |-> rows[i][c]]]

\* lines 109-119
MV02_ByRecipe ==
    /\ pc = "merged"
    /\ recipe_data' = <<>>
    /\ recipe_csv' = <<>>
    /\ package_data' = DropColumn(package_data, "timestamp_y")
    /\ package_data_by_recipe' = RateTable(groupby_sum(package_data', "recipe", RecipeNames))
    /\ pc' = "by_recipe"
    /\ UnchangedMV01 /\ UnchangedMV03
    /\ UNCHANGED <<error, package_csv, error_csv,
                   package_data_hourly, package_data_weekday, package_data_weekly,
                   error_data, output>>

\* lines 120-122
MV02_WriteByRecipe ==
    /\ pc = "by_recipe"
    /\ output' = [output EXCEPT !["ICC_Schlechtpackungen_NachRezept"] = package_data_by_recipe]
    /\ package_data_by_recipe' = <<>>
    /\ pc' = "by_recipe_written"
    /\ UnchangedMV01 /\ UnchangedMV03
    /\ UNCHANGED <<error, package_csv, recipe_csv, error_csv, package_data,
                   package_data_hourly, package_data_weekday, package_data_weekly,
                   recipe_data, error_data>>

NextMV02 == \/ MV02_LoadPackage \/ MV02_Hourly \/ MV02_Weekday \/ MV02_Weekly
            \/ MV02_LoadRecipe \/ MV02_MergeAsof \/ MV02_ByRecipe \/ MV02_WriteByRecipe
SpecMV02 == Idle /\ [][NextMV02]_vars

(***************************************************************************)
(* Properties of reject_pack_analysis.                                     *)
(***************************************************************************)
\* the lookup rows a primary instant may use, and the one a linear scan picks:
\* the greatest timestamp, the last row among equal ones
AsofCandidates(t) == {j \in 1..Len(recipe_data) : recipe_data[j].timestamp <= t}
AsofReference(t) ==
    CHOOSE j \in AsofCandidates(t) :
        \A m \in AsofCandidates(t) :
            \/ recipe_data[m].timestamp < recipe_data[j].timestamp
            \/ (recipe_data[m].timestamp = recipe_data[j].timestamp /\ m <= j)

\* C1: after the asof join of the sorted pack stream against the sorted recipe
\* stream every row carries the timestamp and recipe of the recipe row with
\* the greatest timestamp <= its own (an equal one matches, a later one never),
\* and the missing markers when there is none, as the linear scan gives them.
C1_Rows ==
    pc = "merged" =>
        \A k \in 1..Len(package_data) :
            LET t == package_data[k].timestamp_x
            IN IF AsofCandidates(t) = {}
               THEN /\ package_data[k].timestamp_y = NaT
                    /\ package_data[k].recipe = NoRecipe
               ELSE /\ package_data[k].timestamp_y = recipe_data[AsofReference(t)].timestamp
                    /\ package_data[k].recipe = recipe_data[AsofReference(t)].recipe
                    /\ package_data[k].timestamp_y <= t

\* the join keeps the primary rows, row for row
C1_Primary ==
    (pc = "recipe_loaded" /\ pc' = "merged") =>
        /\ Len(package_data') = Len(package_data)
        /\ \A k \in 1..Len(package_data) :
              /\ package_data'[k].timestamp_x = package_data[k].timestamp
              /\ \A c \in {"idx", "good_packs", "reject_packs", "hour", "weekday"} :
                    package_data'[k][c] = package_data[k][c]

\* C1: the asof join attaches to every pack row the recipe row of the linear
\* scan (C1_Rows) and keeps the pack rows row for row (C1_Primary).
C1_AsofJoin == []C1_Rows /\ [][C1_Primary]_vars

\* a join with a row before the first recipe row, a row at exactly a recipe
\* row's instant, and a recipe row later than some pack row
C1_Witness ==
    /\ pc = "merged"
    /\ \E k \in 1..Len(package_data) : package_data[k].timestamp_y = NaT
    /\ \E k \in 1..Len(package_data) :
          package_data[k].timestamp_y = package_data[k].timestamp_x
    /\ \E k \in 1..Len(package_data), j \in 1..Len(recipe_data) :
          /\ package_data[k].timestamp_y # NaT
          /\ recipe_data[j].timestamp > package_data[k].timestamp_x

\* C4 as claimed: in the hourly, weekday, weekly and per-recipe tables a row
\* whose good-pack total is 0 has the undefined marker as its rate.
ZeroDenominatorUndefined(table) ==
    \A k \in 1..Len(table) :
        table[k].Gutpackungen.num = 0 => table[k].Rate_Schlechtpackungen = NaN

C4_AsClaimed ==
    /\ ZeroDenominatorUndefined(package_data_hourly)
    /\ ZeroDenominatorUndefined(package_data_weekday)
    /\ ZeroDenominatorUndefined(package_data_weekly)
    /\ ZeroDenominatorUndefined(package_data_by_recipe)

\* C5 as claimed: the hourly table has the 24 rows 0..23 and the weekday table
\* the 7 rows Montag..Sonntag, each the sums of the records of that hour or
\* weekday, and the weekday grouping never fails.
GroupRowsHold(table, Keys, Labels, Member(_, _)) ==
    /\ Len(table) = Len(Keys)
    /\ \A k \in 1..Len(Keys) :
          k <= Len(table) =>
              /\ table[k].key = Labels[k]
              /\ table[k].Gutpackungen =
                    agg_sum(package_data, {i \in 1..Len(package_data) :
                                Member(package_data[i], Keys[k])}, "good_packs")
              /\ table[k].Schlechtpackungen =
                    agg_sum(package_data, {i \in 1..Len(package_data) :
                                Member(package_data[i], Keys[k])}, "reject_packs")

HasHour(r, h) == dt_hour(r.timestamp) = h
HasWeekday(r, d) == dt_weekday(r.timestamp) = d

C5_AsClaimed ==
    /\ pc = "hourly" => GroupRowsHold(package_data_hourly, Hours, Hours, HasHour)
    /\ pc = "weekday" => GroupRowsHold(package_data_weekday, Weekdays, Wochentage, HasWeekday)
    /\ error # "ValueError: Length mismatch"

\* totals of a column
Total(rows, S, c) == SumOver([i \in S |-> rows[i][c]], S)
TableTotal(table, c) == SumOver([k \in 1..Len(table) |-> table[k][c].num], 1..Len(table))

\* C10 as claimed: the good-pack and reject-pack totals of the per-recipe rows
\* add up to the totals over all pack records.
C10_AsClaimed ==
    pc = "by_recipe" =>
        /\ TableTotal(package_data_by_recipe, "Gutpackungen")
              = Total(package_data, 1..Len(package_data), "good_packs")
        /\ TableTotal(package_data_by_recipe, "Schlechtpackungen")
              = Total(package_data, 1..Len(package_data), "reject_packs")

\* C10 amended: the totals of the per-recipe rows add up to the totals over
\* the pack records that have a recipe, and each row holds the sums of the
\* pack records of its recipe; the records without one are in no row.
WithRecipe == {i \in 1..Len(package_data) : package_data[i].recipe # NoRecipe}

C10_Totals ==
    pc = "by_recipe" =>
        /\ TableTotal(package_data_by_recipe, "Gutpackungen")
              = Total(package_data, WithRecipe, "good_packs")
        /\ TableTotal(package_data_by_recipe, "Schlechtpackungen")
              = Total(package_data, WithRecipe, "reject_packs")
        /\ \A k \in 1..Len(package_data_by_recipe) :
              package_data_by_recipe[k].key # NoRecipe
        /\ \A i \in WithRecipe :
              \E k \in 1..Len(package_data_by_recipe) :
                  package_data_by_recipe[k].key = package_data[i].recipe

\* the records with a recipe are those at or after the first recipe row
C10_Matched ==
    (pc = "recipe_loaded" /\ pc' = "merged") =>
        \A k \in 1..Len(package_data) :
            (package_data'[k].recipe # NoRecipe)
                <=> (\E j \in 1..Len(recipe_data) :
                        recipe_data[j].timestamp <= package_data[k].timestamp)

\* C10 amended: the per-recipe rows add up to the totals of the pack records
\* at or after the first recipe row; the earlier ones are in no row.
C10_MatchedConserved == []C10_Totals /\ [][C10_Matched]_vars

C10_Witness ==
    /\ pc = "by_recipe"
    /\ Len(package_data_by_recipe) = 2
    /\ \E i \in 1..Len(package_data) :
          package_data[i].recipe = NoRecipe /\ package_data[i].good_packs > 0
    /\ \E i, j \in WithRecipe :
          i # j /\ package_data[i].recipe = package_data[j].recipe

(***************************************************************************)
(* MV03_productionForecast.py                                              *)
(***************************************************************************)
Horizon == 120
Periods == 8
ShiftMinutes == 8 * MinutesPerHour
FiveDays == 5 * MinutesPerDay

PackTimesMV03 == {At(3, 3, 0), At(3, 9, 0), At(4, 17, 30), At(5, 10, 0), At(7, 1, 0)}
PackCellsMV03 == [timestamp : {TsText(t, TRUE) : t \in PackTimesMV03},
                  good_packs : {0, 7}, reject_packs : {1}]
PackFilesMV03 == SeqsUpTo(PackCellsMV03, MaxPack)

\* lines 12-15
load_package_data_MV03(csv) ==
    sort_values(ParseTimestamps(csv), TimestampKey(ParseTimestamps(csv)))

\* lines 26-29: the 8-hour sums, the windows of Saturday and Sunday removed,
\* the reject_packs column dropped
ShiftTable(rows) ==
    LET table == AggTable(rows, resample(rows, ShiftMinutes), PackColumns, agg_sum)
        weekdays == FilterIdx(table, [k \in 1..Len(table) |->
                                         dt_weekday(table[k].label) < 5])
    IN [k \in 1..Len(weekdays) |->
           [timestamp |-> weekdays[k].label, good_packs |-> weekdays[k].good_packs]]

\* bdate_range("2022-08-01", periods=8, freq="W-Mon"): 8 Mondays one week
\* apart (2022-08-01 is a Monday; it is day 14 of the model's calendar)
correct_index == [k \in 1..Periods |-> At(14 + 7 * (k - 1), 0, 0)]

\* the point forecasts a fitted model may give for step k of the horizon
ForecastShapes == {"flat", "ramp"}
Forecast(shape, k) == IF shape = "flat" THEN Num(30) ELSE Num(k)

\* the first instant of the forecast: one step after the end of the series
predict_start_at_end(end) == end
predict_start(end) == end + ShiftMinutes

\* whether the index assignment of line 59 is accepted
index_fits_truncating(table, labels) == Len(table) >= Len(labels)
index_fits(table, labels) == Len(table) = Len(labels)

\* line 25
MV03_LoadPackage ==
    /\ pc = "start"
    /\ \E csv \in PackFilesMV03 :
          /\ package_csv' = csv
          /\ package_data' \in load_package_data_MV03(csv)
    /\ pc' = "package_loaded"
    /\ UnchangedMV01
    /\ UNCHANGED <<error, recipe_csv, error_csv, package_data_hourly,
                   package_data_weekday, package_data_weekly, package_data_by_recipe,
                   recipe_data, error_data, series, pred, prediction_df, output>>

\* lines 26-29
MV03_ResampleShifts ==
    /\ pc = "package_loaded"
    /\ package_data' = ShiftTable(package_data)
    /\ pc' = "shifts"
    /\ UnchangedMV01
    /\ UNCHANGED <<error, package_csv, recipe_csv, error_csv, package_data_hourly,
                   package_data_weekday, package_data_weekly, package_data_by_recipe,
                   recipe_data, error_data, series, pred, prediction_df, output>>

\* lines 32-44: the series spans the first to the last retained window; the
\* model cannot be fitted to fewer than two values
MV03_Fit ==
    /\ pc = "shifts"
    /\ IF Len(package_data) < 2
       THEN /\ error' = "ValueError: cannot fit"
            /\ pc' = "failed"
            /\ UNCHANGED series
       ELSE /\ series' = [start |-> package_data[1].timestamp,
                          end |-> package_data[Len(package_data)].timestamp,
                          values |-> package_data]
            /\ pc' = "fitted"
            /\ UNCHANGED error
    /\ UnchangedMV01
    /\ UNCHANGED <<package_csv, recipe_csv, error_csv, package_data, package_data_hourly,
                   package_data_weekday, package_data_weekly, package_data_by_recipe,
                   recipe_data, error_data, pred, prediction_df, output>>

\* lines 47-55
MV03_Predict ==
    /\ pc = "fitted"
    /\ \E shape \in ForecastShapes :
          pred' = [k \in 1..Horizon |->
                      [timestamp |-> predict_start(series.end) + (k - 1) * ShiftMinutes,
                       good_packs |-> Forecast(shape, k)]]
    /\ pc' = "predicted"
    /\ UnchangedMV01
    /\ UNCHANGED <<error, package_csv, recipe_csv, error_csv, package_data,
                   package_data_hourly, package_data_weekday, package_data_weekly,
                   package_data_by_recipe, recipe_data, error_data, series,
                   prediction_df, output>>

\* lines 57-58
MV03_Rebucket ==
    /\ pc = "predicted"
    /\ prediction_df' = AggTable(pred, resample(pred, FiveDays), {"good_packs"}, agg_mean)
    /\ pc' = "rebucketed"
    /\ UnchangedMV01
    /\ UNCHANGED <<error, package_csv, recipe_csv, error_csv, package_data,
                   package_data_hourly, package_data_weekday, package_data_weekly,
                   package_data_by_recipe, recipe_data, error_data, series, pred, output>>

\* line 59
MV03_Relabel ==
    /\ pc = "rebucketed"
    /\ IF index_fits(prediction_df, correct_index)
       THEN /\ prediction_df' = [k \in 1..Len(correct_index) |->
                                    [prediction_df[k] EXCEPT !.label = correct_index[k]]]
            /\ pc' = "relabeled"
            /\ UNCHANGED error
       ELSE /\ error' = "ValueError: Length mismatch"
            /\ pc' = "failed"
            /\ UNCHANGED prediction_df
    /\ UnchangedMV01
    /\ UNCHANGED <<package_csv, recipe_csv, error_csv, package_data,
                   package_data_hourly, package_data_weekday, package_data_weekly,
                   package_data_by_recipe, recipe_data, error_data, series, pred, output>>

\* lines 60-66
MV03_WriteReport ==
    /\ pc = "relabeled"
    /\ output' = [output EXCEPT !["ICC_Produktionsvorhersage"] =
                     [k \in 1..Len(prediction_df) |->
                         [Woche_von |-> prediction_df[k].label,
                          Gutpackungen_pro_Schicht |-> prediction_df[k].good_packs]]]
    /\ prediction_df' = <<>>
    /\ pc' = "done"
    /\ UnchangedMV01
    /\ UNCHANGED <<error, package_csv, recipe_csv, error_csv, package_data,
                   package_data_hourly, package_data_weekday, package_data_weekly,
                   package_data_by_recipe, recipe_data, error_data, series, pred>>

NextMV03 == \/ MV03_LoadPackage \/ MV03_ResampleShifts \/ MV03_Fit \/ MV03_Predict
            \/ MV03_Rebucket \/ MV03_Relabel \/ MV03_WriteReport
SpecMV03 == Idle /\ [][NextMV03]_vars

(***************************************************************************)
(* Properties of forecast_production.                                      *)
(***************************************************************************)
\* C6: when the number of reporting windows differs from the length of the
\* calendar index the assignment ends the call with the error and no report
\* is written; when they are equal row i gets calendar label i and keeps the
\* values of window i.
C6_Step ==
    pc = "rebucketed" =>
        IF Len(prediction_df) # Len(correct_index)
        THEN /\ pc' = "failed"
             /\ error' = "ValueError: Length mismatch"
             /\ output' = output
        ELSE /\ pc' = "relabeled"
             /\ Len(prediction_df') = Len(prediction_df)
             /\ \A i \in 1..Len(prediction_df) :
                   /\ prediction_df'[i].label = correct_index[i]
                   /\ prediction_df'[i].good_packs = prediction_df[i].good_packs

C6_NoTableAfterError ==
    pc = "failed" => output["ICC_Produktionsvorhersage"] = NotWritten

\* C6: a length mismatch ends the call with no report written, equal lengths
\* relabel the rows and change no value.
C6_Realign == []C6_NoTableAfterError /\ [][C6_Step]_vars

C6_Witness ==
    /\ pc = "relabeled"
    /\ \A i \in 1..Len(correct_index) : prediction_df[i].label = correct_index[i]
    /\ prediction_df[1].good_packs # prediction_df[2].good_packs

\* the forecast instants a reporting window covers
InWindow(k) ==
    {i \in 1..Len(pred) :
        /\ prediction_df[k].label <= pred[i].timestamp
        /\ pred[i].timestamp < prediction_df[k].label + FiveDays}

EightWindowsOfFifteen ==
    /\ Len(prediction_df) = Periods
    /\ \A k \in 1..Len(prediction_df) : Cardinality(InWindow(k)) = 15

\* C9 as claimed: the forecast always forms 8 windows of 15 instants and the
\* relabeling never meets a length mismatch.
C9_AsClaimed ==
    /\ pc = "rebucketed" => EightWindowsOfFifteen
    /\ error # "ValueError: Length mismatch"

\* C9 amended: that holds when the last retained shift window is the one that
\* starts at 16:00, so that the forecast starts at midnight; when it is the
\* 00:00 or the 08:00 one the forecast forms 9 windows and the relabeling
\* fails.
C9_WhenForecastStartsAtMidnight ==
    /\ pc = "rebucketed" =>
          IF dt_hour(series.end) = 16
          THEN EightWindowsOfFifteen
          ELSE Len(prediction_df) = Periods + 1
    /\ error = "ValueError: Length mismatch" => dt_hour(series.end) # 16

C9_Witness ==
    /\ pc = "rebucketed"
    /\ dt_hour(series.end) = 16
    /\ EightWindowsOfFifteen

(***************************************************************************)
(* The four loaders, each called on a file of its own.                     *)
(***************************************************************************)
\* MV02 line 106
CallLoadRecipe ==
    /\ pc = "start"
    /\ \E csv \in RecipeFiles :
          /\ recipe_csv' = csv
          /\ recipe_data' \in load_recipe_data(csv)
    /\ pc' = "recipe_loaded"
    /\ UnchangedMV01 /\ UnchangedMV03
    /\ UNCHANGED <<error, package_csv, error_csv, package_data,
                   package_data_hourly, package_data_weekday, package_data_weekly,
                   package_data_by_recipe, error_data, output>>

\* MV02 line 130
CallLoadError ==
    /\ pc = "start"
    /\ \E csv \in ErrorFiles :
          /\ error_csv' = csv
          /\ error_data' \in load_error_data(csv)
    /\ pc' = "error_loaded"
    /\ UnchangedMV01 /\ UnchangedMV03
    /\ UNCHANGED <<error, package_csv, recipe_csv, package_data,
                   package_data_hourly, package_data_weekday, package_data_weekly,
                   package_data_by_recipe, recipe_data, output>>

NextLoaders == \/ MV01_LoadOee \/ MV02_LoadPackage \/ CallLoadRecipe \/ CallLoadError
SpecLoaders == Idle /\ [][NextLoaders]_vars

\* C7 as claimed, its ordering part: every loader returns its rows with
\* non-decreasing instants (the recipe and the error loader included).
C7_NonDecreasing ==
    /\ IsMonotonic(TimestampKey(oee_data))
    /\ IsMonotonic(TimestampKey(package_data))
    /\ IsMonotonic(TimestampKey(recipe_data))
    /\ IsMonotonic([i \in 1..Len(error_data) |-> error_data[i].start_ts])

====
